---- MODULE Spec2Model ----
(***************************************************************************)
(* A model of src/utils.rs of vsv: the fixed-width status line, the        *)
(* relative duration, the string trimmer, the command line of a process    *)
(* read under PROC_PATH, the program runner and the colour decision.       *)
(*                                                                         *)
(* A Rust String is modelled as the sequence of its Unicode scalar values  *)
(* (natural numbers); str::len() is the number of bytes of its UTF-8       *)
(* encoding, chars() walks the scalar values.  A byte string (Vec<u8>, a   *)
(* file's content) is a sequence of numbers in 0..255.                     *)
(***************************************************************************)
EXTENDS Integers, Sequences, FiniteSets, TLC

VARIABLES
    args,       \* the arguments of the call being made / last made
    ret,        \* the outcome of that call, NoRet before it returned
    environ,    \* the process environment: PROC_DIR and NO_COLOR
    tty,        \* whether file descriptor 1 is a terminal
    PROC_PATH,  \* the lazy static: not initialised until its first dereference
    io,         \* the file read or the child spawned by that call, NoIo if none
    reads,      \* the number of file reads made so far
    spawns      \* the number of children spawned so far

vars == <<args, ret, environ, tty, PROC_PATH, io, reads, spawns>>

----------------------------------------------------------------------------
(* Bounds of the model. *)

\* longest input string (in characters) given to trim_long_string
MaxLen == 4
\* largest limit given to trim_long_string
MaxLimit == 5
\* durations k * unit + e are tried for k in 0..MaxCount, e in -MaxSlack..MaxSlack
MaxCount == 3
MaxSlack == 2
\* a field text given to format_status_line is at most this much longer than
\* the field's width
MaxOver == 1
\* the process ids asked for are 1..MaxPid
MaxPid == 4
\* the process makes at most this many file reads and spawns this many children
MaxReads == 2
MaxSpawns == 2

----------------------------------------------------------------------------
(* Outcomes of a call. *)

NoRet == [kind |-> "none", val |-> <<>>, msg |-> ""]
Ok(v) == [kind |-> "ok", val |-> v, msg |-> ""]
\* a failed assert!: the thread panics, nothing is returned to the caller
Panic(m) == [kind |-> "panic", val |-> <<>>, msg |-> m]
\* Err(e) of an anyhow::Result: class names the error, val what its message
\* names
Err(class, v) == [kind |-> "err", val |-> v, msg |-> class]

----------------------------------------------------------------------------
(* Strings and UTF-8. *)

\* the scalar values the input strings are built from: 'a' (1 byte),
\* U+00E9 (2 bytes), U+2714 (3 bytes)
Glyphs == {97, 233, 10004}

\* all strings of at most n characters over Glyphs
Strings(n) == UNION {[1..k -> Glyphs] : k \in 0..n}

\* char::len_utf8
len_utf8(c) ==
    IF c < 128 THEN 1 ELSE IF c < 2048 THEN 2 ELSE IF c < 65536 THEN 3 ELSE 4

RECURSIVE str_len(_)
\* str::len: the length in BYTES of the UTF-8 encoding
str_len(s) == IF s = <<>> THEN 0 ELSE len_utf8(Head(s)) + str_len(Tail(s))

\* s.chars().take(n).collect::<String>()
chars_take(s, n) == SubSeq(s, 1, IF n < Len(s) THEN n ELSE Len(s))

\* "..."
Dots == <<46, 46, 46>>

----------------------------------------------------------------------------
(* trim_long_string, src/utils.rs 122-138 *)

\* "don't do anything if string is smaller than limit"
trim_keeps(len, limit) == len < limit

trim_long_string(s, limit, suffix) ==
    LET suffix_len == str_len(suffix) IN
    IF ~(limit > suffix_len) THEN Panic("number too small")
    ELSE LET len == str_len(s) IN
         IF trim_keeps(len, limit) THEN Ok(s)
         ELSE Ok(chars_take(s, limit - suffix_len) \o suffix)

----------------------------------------------------------------------------
(* relative_duration, src/utils.rs 95-120 *)

STR_year == <<121, 101, 97, 114>>
STR_month == <<109, 111, 110, 116, 104>>
STR_week == <<119, 101, 101, 107>>
STR_day == <<100, 97, 121>>
STR_hour == <<104, 111, 117, 114>>
STR_minute == <<109, 105, 110, 117, 116, 101>>
STR_second == <<115, 101, 99, 111, 110, 100>>
\* "0 seconds"
STR_0_seconds == <<48, 32>> \o STR_second \o <<115>>

RECURSIVE to_string(_)
\* the Display of an unsigned integer: its decimal digits
to_string(n) ==
    IF n < 10 THEN <<48 + n>> ELSE to_string(n \div 10) \o <<48 + (n % 10)>>

\* let v = vec![...]
duration_table(secs) ==
    << <<(((secs \div 60) \div 60) \div 24) \div 365, STR_year>>,
       <<(((secs \div 60) \div 60) \div 24) \div 30,  STR_month>>,
       <<(((secs \div 60) \div 60) \div 24) \div 7,   STR_week>>,
       <<((secs \div 60) \div 60) \div 24,            STR_day>>,
       <<(secs \div 60) \div 60,                      STR_hour>>,
       <<secs \div 60,                                STR_minute>>,
       <<secs,                                        STR_second>> >>

\* the mutant pluralises every count but zero
plural_step_M(num, plural) == IF num >= 1 THEN <<115>> ELSE plural

\* if num > 1 { plural = "s" }
plural_step(num, plural) == IF num > 1 THEN <<115>> ELSE plural

RECURSIVE duration_loop(_, _, _)
\* for (num, name) in v, from the i-th pair on, with the current plural
duration_loop(v, i, plural) ==
    IF i > Len(v) THEN STR_0_seconds
    ELSE LET num == v[i][1]
             name == v[i][2]
             plural2 == plural_step(num, plural)
         IN  IF num > 0
             THEN to_string(num) \o <<32>> \o name \o plural2
             ELSE duration_loop(v, i + 1, plural2)

relative_duration(secs) == Ok(duration_loop(duration_table(secs), 1, <<>>))

----------------------------------------------------------------------------
(* format_status_line, src/utils.rs 28-59 *)

\* a yansi Style is opaque here: the default style paints nothing around the
\* text, any other one a prefix (ESC [ 3 2 m) and a reset (ESC [ 0 m)
Styles == {"plain", "green"}
style_prefix(style) == IF style = "plain" THEN <<>> ELSE <<27, 91, 51, 50, 109>>
style_suffix(style) == IF style = "plain" THEN <<>> ELSE <<27, 91, 48, 109>>

\* n spaces
Spaces(n) == [i \in 1..n |-> 32]

\* the mutant pads by the length in bytes
pad_width_M(text) == str_len(text)

\* the width a str counts for {:width$}: its characters
pad_width(text) == Len(text)

\* the Display of a str under {:width$}: left-aligned, filled with spaces up
\* to width characters, never cut
pad(text, width) ==
    IF pad_width(text) >= width THEN text
    ELSE text \o Spaces(width - pad_width(text))

\* the Display of style.paint(text) under {:width$}: the style's markers
\* around the text formatted by the same formatter
paint_fmt(text, style, width) ==
    style_prefix(style) \o pad(text, width) \o style_suffix(style)

\* ( max width, suffix ) of status_char, name, state, enabled, pid, command, time
data ==
    << [max |-> 1,  suffix |-> <<>>], [max |-> 20, suffix |-> Dots],
       [max |-> 7,  suffix |-> Dots], [max |-> 9,  suffix |-> Dots],
       [max |-> 8,  suffix |-> Dots], [max |-> 17, suffix |-> Dots],
       [max |-> 99, suffix |-> Dots] >>

\* the mutant starts from the empty line
line_init_M == <<>>

\* let mut line = String::from(" ")
line_init == <<32>>

RECURSIVE status_loop(_, _, _)
\* for (o, max, suffix) in data, from the i-th field on; a panic of
\* trim_long_string unwinds through the loop
status_loop(fields, i, line) ==
    IF i > Len(data) THEN Ok(line)
    ELSE LET text == trim_long_string(fields[i].text, data[i].max, data[i].suffix)
         IN  IF text.kind = "panic" THEN text
             ELSE status_loop(fields, i + 1,
                     line \o <<32>> \o paint_fmt(text.val, fields[i].style, data[i].max))

format_status_line(fields) == status_loop(fields, 1, line_init)

----------------------------------------------------------------------------
(* The environment, PROC_PATH and the file system, src/utils.rs 16-26 *)

NotSet == [set |-> FALSE, val |-> ""]
Set(v) == [set |-> TRUE, val |-> v]

\* env::var_os(name): Some(value) when the variable is set, to any value
var_os(env, name) == env[name]

NotInit == [init |-> FALSE, path |-> ""]

\* the initialiser of the lazy static
proc_path_init(env) ==
    LET proc_default == "/proc"
        proc_dir == IF var_os(env, "PROC_DIR").set
                    THEN var_os(env, "PROC_DIR").val ELSE proc_default
    IN  proc_dir

\* the mutant runs the initialiser at every dereference
proc_path_deref_M(cell, env) == [init |-> TRUE, path |-> proc_path_init(env)]

\* a dereference of PROC_PATH: lazy_static runs the initialiser the first
\* time and keeps its value
proc_path_deref(cell, env) ==
    IF cell.init THEN cell ELSE [init |-> TRUE, path |-> proc_path_init(env)]

\* the files under the process directories: a content in bytes, or the errno
\* of the read
Files ==
    { [path |-> <<"/proc", <<49>>, "cmdline">>, errno |-> "",
         bytes |-> <<47, 98, 105, 110, 47, 116, 114, 117, 101, 0,
                     97, 114, 103, 49, 0>>],
      [path |-> <<"/proc", <<50>>, "cmdline">>, errno |-> "", bytes |-> <<>>],
      [path |-> <<"/proc", <<51>>, "cmdline">>, errno |-> "EACCES", bytes |-> <<>>],
      [path |-> <<"/tmp/fake", <<49>>, "cmdline">>, errno |-> "",
         bytes |-> <<115, 104>>],
      [path |-> <<"/tmp/fake", <<50>>, "cmdline">>, errno |-> "",
         bytes |-> <<0, 97, 0>>],
      [path |-> <<"/tmp/fake", <<51>>, "cmdline">>, errno |-> "",
         bytes |-> <<255, 0>>],
      [path |-> <<"/tmp/fake", <<52>>, "cmdline">>, errno |-> "",
         bytes |-> <<195, 169, 0, 120>>] }

\* the read of a whole file: its bytes, or the errno
fs_read(path) ==
    IF \E f \in Files : f.path = path
    THEN LET f == CHOOSE g \in Files : g.path = path
         IN  [errno |-> f.errno, bytes |-> f.bytes]
    ELSE [errno |-> "ENOENT", bytes |-> <<>>]

IsCont(b) == b >= 128 /\ b <= 191

RECURSIVE utf8_chars(_)
\* the scalar values a byte string encodes, <<-1>> appended where it stops
\* being valid UTF-8 (the validation of core::str::from_utf8)
utf8_chars(b) ==
    IF b = <<>> THEN <<>>
    ELSE LET b0 == b[1]
             n == Len(b)
         IN  IF b0 < 128 THEN <<b0>> \o utf8_chars(Tail(b))
             ELSE IF b0 >= 194 /\ b0 <= 223
             THEN IF n >= 2 /\ IsCont(b[2])
                  THEN <<(b0 - 192) * 64 + (b[2] - 128)>>
                          \o utf8_chars(SubSeq(b, 3, n))
                  ELSE <<-1>>
             ELSE IF b0 >= 224 /\ b0 <= 239
             THEN IF /\ n >= 3
                     /\ IsCont(b[2]) /\ IsCont(b[3])
                     /\ (b0 = 224 => b[2] >= 160)
                     /\ (b0 = 237 => b[2] <= 159)
                  THEN <<(b0 - 224) * 4096 + (b[2] - 128) * 64 + (b[3] - 128)>>
                          \o utf8_chars(SubSeq(b, 4, n))
                  ELSE <<-1>>
             ELSE IF b0 >= 240 /\ b0 <= 244
             THEN IF /\ n >= 4
                     /\ IsCont(b[2]) /\ IsCont(b[3]) /\ IsCont(b[4])
                     /\ (b0 = 240 => b[2] >= 144)
                     /\ (b0 = 244 => b[2] <= 143)
                  THEN <<(b0 - 240) * 262144 + (b[2] - 128) * 4096
                            + (b[3] - 128) * 64 + (b[4] - 128)>>
                          \o utf8_chars(SubSeq(b, 5, n))
                  ELSE <<-1>>
             ELSE <<-1>>

\* String::from_utf8 / the decoding of fs::read_to_string
from_utf8(b) ==
    LET c == utf8_chars(b)
    IN  IF \E i \in 1..Len(c) : c[i] = -1
        THEN [ok |-> FALSE, chars |-> <<>>]
        ELSE [ok |-> TRUE, chars |-> c]

----------------------------------------------------------------------------
(* cmd_from_pid, src/utils.rs 61-74 *)

\* fs::read_to_string: an io::Error when the file cannot be read or does
\* not hold valid UTF-8
read_to_string(path) ==
    LET r == fs_read(path)
    IN  IF r.errno # "" THEN [ok |-> FALSE, chars |-> <<>>]
        ELSE from_utf8(r.bytes)

RECURSIVE split_M(_, _)
\* the mutant yields no field for the empty string, and none after a last
\* separator
split_M(s, sep) ==
    IF s = <<>> THEN <<>>
    ELSE IF \E i \in 1..Len(s) : s[i] = sep
    THEN LET i == CHOOSE j \in 1..Len(s) : s[j] = sep /\ \A k \in 1..(j - 1) : s[k] # sep
         IN  <<SubSeq(s, 1, i - 1)>> \o split_M(SubSeq(s, i + 1, Len(s)), sep)
    ELSE <<s>>

RECURSIVE split_rec(_, _)
split_rec(s, sep) ==
    IF \E i \in 1..Len(s) : s[i] = sep
    THEN LET i == CHOOSE j \in 1..Len(s) : s[j] = sep /\ \A k \in 1..(j - 1) : s[k] # sep
         IN  <<SubSeq(s, 1, i - 1)>> \o split_rec(SubSeq(s, i + 1, Len(s)), sep)
    ELSE <<s>>

\* str::split(sep): the fields between the separators, one field (the empty
\* one) for the empty string
split(s, sep) == split_rec(s, sep)

\* the path read by cmd_from_pid
cmdline_path(root, pid) == <<root, to_string(pid), "cmdline">>

\* the mutant returns the whole record
cmd_from_pid_M(p) ==
    LET text == read_to_string(p)
    IN  IF ~text.ok THEN Err("IoError", <<>>) ELSE Ok(text.chars)

\* the outcome of cmd_from_pid on the path p
cmd_from_pid(p) ==
    LET text == read_to_string(p)
    IN  IF ~text.ok THEN Err("IoError", <<>>)
        ELSE LET fields == split(text.chars, 0)
             IN  IF Len(fields) > 0 THEN Ok(fields[1])
                 ELSE Err("ParseError", <<>>)

----------------------------------------------------------------------------
(* run_program, src/utils.rs 76-93 *)

\* ExitStatus::success
success(status) == status = 0

\* the mutant decodes the output before it looks at the exit status
run_program_M(argv, child) ==
    IF argv = <<>> THEN Panic("run_program requires at least 1 argument")
    ELSE IF ~child.started THEN Err("IoError", <<>>)
    ELSE IF ~from_utf8(child.stdout).ok THEN Err("EncodingError", <<>>)
    ELSE IF ~success(child.status) THEN Err("ExecutionError", argv[1])
    ELSE Ok(from_utf8(child.stdout).chars)

\* the mutant returns an error for the empty argument list
run_program_E(argv, child) ==
    IF argv = <<>> THEN Err("InvocationError", <<>>)
    ELSE IF ~child.started THEN Err("IoError", <<>>)
    ELSE IF ~success(child.status) THEN Err("ExecutionError", argv[1])
    ELSE IF ~from_utf8(child.stdout).ok THEN Err("EncodingError", <<>>)
    ELSE Ok(from_utf8(child.stdout).chars)

\* the outcome of run_program(argv) when Command::output() gives child
run_program(argv, child) ==
    IF argv = <<>> THEN Panic("run_program requires at least 1 argument")
    ELSE IF ~child.started THEN Err("IoError", <<>>)
    ELSE IF ~success(child.status) THEN Err("ExecutionError", argv[1])
    ELSE IF ~from_utf8(child.stdout).ok THEN Err("EncodingError", <<>>)
    ELSE Ok(from_utf8(child.stdout).chars)

----------------------------------------------------------------------------
(* should_colorize_output, src/utils.rs 140-153 *)

\* libc::isatty(fd) != 0
isatty(fd, t) == fd = 1 /\ t

\* the mutant takes an empty NO_COLOR for an unset one
no_color_env_M(env) == var_os(env, "NO_COLOR").set /\ var_os(env, "NO_COLOR").val # ""

\* env::var_os("NO_COLOR").is_some()
no_color_env(env) == var_os(env, "NO_COLOR").set

should_colorize_output(env, t) ==
    IF no_color_env(env) THEN Ok(FALSE) ELSE Ok(isatty(1, t))

----------------------------------------------------------------------------
(* The state outside the pure functions, unchanged by them. *)

NoIo == [kind |-> "none"]

QuietProcess ==
    /\ environ = [PROC_DIR |-> NotSet, NO_COLOR |-> NotSet]
    /\ tty = FALSE
    /\ PROC_PATH = NotInit
    /\ io = NoIo
    /\ reads = 0
    /\ spawns = 0

----------------------------------------------------------------------------
(* The process: its environment changes, its standard output is redirected,
   and it calls cmd_from_pid, run_program and should_colorize_output in any
   order.  Every step records the operation in args and its outcome in ret;
   a panic ends the process. *)

ProcDirs == {"/proc", "/tmp/fake", "/nonexistent"}
NoColors == {"", "1"}
EnvValues(name) == IF name = "PROC_DIR" THEN ProcDirs ELSE NoColors

\* the argument lists given to run_program: none, "sh", "echo hi"
ArgLists == {<<>>, <<<<115, 104>>>>, <<<<101, 99, 104, 111>>, <<104, 105>>>>}

\* what Command::output() may give: the program did not start, or it ran to
\* an exit status with some bytes on its standard output
Children ==
    {[started |-> FALSE, status |-> -1, stdout |-> <<>>]} \cup
    [started : {TRUE}, status : {0, 1},
     stdout : {<<>>, <<104, 105, 10>>, <<195, 169>>, <<104, 255>>}]

Alive == ret.kind # "panic"

Init ==
    /\ args = [op |-> "start"]
    /\ ret = NoRet
    /\ environ \in [PROC_DIR : {NotSet} \cup {Set(v) : v \in ProcDirs},
                    NO_COLOR : {NotSet} \cup {Set(v) : v \in NoColors}]
    /\ tty \in BOOLEAN
    /\ PROC_PATH = NotInit
    /\ io = NoIo
    /\ reads = 0
    /\ spawns = 0

\* the environment variable name is set to v
Setenv(name, v) ==
    /\ Alive
    /\ environ' = [environ EXCEPT ![name] = Set(v)]
    /\ args' = [op |-> "setenv", name |-> name]
    /\ ret' = NoRet
    /\ io' = NoIo
    /\ UNCHANGED <<tty, PROC_PATH, reads, spawns>>

\* the environment variable name is removed
Unsetenv(name) ==
    /\ Alive
    /\ environ' = [environ EXCEPT ![name] = NotSet]
    /\ args' = [op |-> "unsetenv", name |-> name]
    /\ ret' = NoRet
    /\ io' = NoIo
    /\ UNCHANGED <<tty, PROC_PATH, reads, spawns>>

\* file descriptor 1 is reopened on a terminal, or on something else
Redirect(t) ==
    /\ Alive
    /\ tty' = t
    /\ args' = [op |-> "redirect"]
    /\ ret' = NoRet
    /\ io' = NoIo
    /\ UNCHANGED <<environ, PROC_PATH, reads, spawns>>

CmdFromPid(pid) ==
    /\ Alive
    /\ reads < MaxReads
    /\ LET cell == proc_path_deref(PROC_PATH, environ)
           p == cmdline_path(cell.path, pid)
       IN  /\ PROC_PATH' = cell
           /\ io' = [kind |-> "read", path |-> p]
           /\ ret' = cmd_from_pid(p)
    /\ reads' = reads + 1
    /\ args' = [op |-> "cmd_from_pid", pid |-> pid]
    /\ UNCHANGED <<environ, tty, spawns>>

\* the call with no argument: the assert fails before anything is spawned
RunNothing ==
    /\ Alive
    /\ args' = [op |-> "run_program", argv |-> <<>>]
    /\ ret' = run_program(<<>>, [started |-> FALSE, status |-> -1, stdout |-> <<>>])
    /\ io' = NoIo
    /\ UNCHANGED <<environ, tty, PROC_PATH, reads, spawns>>

RunProgram(argv, child) ==
    /\ Alive
    /\ argv # <<>>
    /\ spawns < MaxSpawns
    /\ args' = [op |-> "run_program", argv |-> argv]
    /\ io' = [kind |-> "spawn", program |-> argv[1], argv |-> Tail(argv),
              child |-> child]
    /\ spawns' = spawns + 1
    /\ ret' = run_program(argv, child)
    /\ UNCHANGED <<environ, tty, PROC_PATH, reads>>

ShouldColorize ==
    /\ Alive
    /\ args' = [op |-> "should_colorize_output"]
    /\ ret' = should_colorize_output(environ, tty)
    /\ io' = NoIo
    /\ UNCHANGED <<environ, tty, PROC_PATH, reads, spawns>>

Next ==
    \/ \E name \in {"PROC_DIR", "NO_COLOR"} : \E v \in EnvValues(name) : Setenv(name, v)
    \/ \E name \in {"PROC_DIR", "NO_COLOR"} : Unsetenv(name)
    \/ \E t \in BOOLEAN : Redirect(t)
    \/ \E pid \in 1..MaxPid : CmdFromPid(pid)
    \/ RunNothing
    \/ \E argv \in ArgLists, child \in Children : RunProgram(argv, child)
    \/ ShouldColorize

Spec == Init /\ [][Next]_vars

----------------------------------------------------------------------------
(* Calls of trim_long_string on every small input. *)

\* "", ".", "..."
Suffixes == {<<>>, <<46>>, Dots}

InitTrim ==
    /\ args \in [op : {"trim_long_string"}, s : Strings(MaxLen),
                 limit : 0..MaxLimit, suffix : Suffixes]
    /\ ret = NoRet
    /\ QuietProcess

CallTrim ==
    /\ args.op = "trim_long_string"
    /\ ret = NoRet
    /\ ret' = trim_long_string(args.s, args.limit, args.suffix)
    /\ UNCHANGED <<args, environ, tty, PROC_PATH, io, reads, spawns>>

NextTrim == CallTrim

SpecTrim == InitTrim /\ [][NextTrim]_vars

----------------------------------------------------------------------------
(* Calls of relative_duration around every multiple of every unit. *)

Units == {1, 60, 3600, 86400, 604800, 2592000, 31536000}

Durations ==
    {0, 59, 90, 172800} \cup
    {t \in {k * u + e : k \in 0..MaxCount, u \in Units, e \in (0 - MaxSlack)..MaxSlack} :
        t >= 0}

InitDuration ==
    /\ args \in [op : {"relative_duration"}, secs : Durations]
    /\ ret = NoRet
    /\ QuietProcess

CallDuration ==
    /\ args.op = "relative_duration"
    /\ ret = NoRet
    /\ ret' = relative_duration(args.secs)
    /\ UNCHANGED <<args, environ, tty, PROC_PATH, io, reads, spawns>>

NextDuration == CallDuration

SpecDuration == InitDuration /\ [][NextDuration]_vars

----------------------------------------------------------------------------
(* Calls of format_status_line: one field takes every length from 0 to past
   its width, the six others are all empty, all one short of their width,
   all of their width or all past it; the texts are ASCII, two-byte,
   three-byte or mixed. *)

Patterns == {"ascii", "two", "three", "mixed"}

\* a text of n characters
Fill(n, pat) ==
    [i \in 1..n |->
        CASE pat = "ascii" -> 97
          [] pat = "two" -> 233
          [] pat = "three" -> 10004
          [] OTHER -> IF i % 3 = 1 THEN 97 ELSE IF i % 3 = 2 THEN 10004 ELSE 233]

Bases == {"empty", "short", "exact", "long"}

BaseLen(i, base) ==
    CASE base = "empty" -> 0
      [] base = "short" -> data[i].max - 1
      [] base = "exact" -> data[i].max
      [] OTHER -> data[i].max + MaxOver

InitStatus ==
    /\ \E f \in 1..7, pat \in Patterns, base \in Bases, st \in Styles, so \in Styles :
         \E n \in 0..(data[f].max + MaxOver) :
            args = [op |-> "format_status_line",
                    fields |-> [i \in 1..7 |->
                        IF i = f THEN [text |-> Fill(n, pat), style |-> st]
                        ELSE [text |-> Fill(BaseLen(i, base), pat), style |-> so]]]
    /\ ret = NoRet
    /\ QuietProcess

CallStatus ==
    /\ args.op = "format_status_line"
    /\ ret = NoRet
    /\ ret' = format_status_line(args.fields)
    /\ UNCHANGED <<args, environ, tty, PROC_PATH, io, reads, spawns>>

NextStatus == CallStatus

SpecStatus == InitStatus /\ [][NextStatus]_vars

----------------------------------------------------------------------------
(* C1: trim_long_string, lengths counted in characters. *)

Returned(op) == args.op = op /\ ret.kind # "none"

EndsWith(s, suffix) ==
    /\ Len(s) >= Len(suffix)
    /\ SubSeq(s, Len(s) - Len(suffix) + 1, Len(s)) = suffix

\* C1 as stated: for every limit L > len(suffix) in characters, a string of
\* fewer than L characters is returned unchanged, any other comes back as its
\* first L - len(suffix) characters followed by the suffix.
C1_TrimInCharacters ==
    (Returned("trim_long_string") /\ args.limit > Len(args.suffix)) =>
        IF Len(args.s) < args.limit
        THEN ret = Ok(args.s)
        ELSE /\ ret = Ok(SubSeq(args.s, 1, args.limit - Len(args.suffix)) \o args.suffix)
             /\ Len(ret.val) <= args.limit
             /\ EndsWith(ret.val, args.suffix)

----------------------------------------------------------------------------
(* C2: relative_duration. *)

\* the (n, unit) pairs of the claim, by one floor division each
ClaimPairs(t) ==
    << <<t \div 31536000, STR_year>>, <<t \div 2592000, STR_month>>,
       <<t \div 604800, STR_week>>,   <<t \div 86400, STR_day>>,
       <<t \div 3600, STR_hour>>,     <<t \div 60, STR_minute>>,
       <<t, STR_second>> >>

ClaimFormat(t) ==
    IF t = 0 THEN STR_0_seconds
    ELSE LET p == ClaimPairs(t)
             i == CHOOSE j \in 1..7 : p[j][1] > 0 /\ \A k \in 1..(j - 1) : p[k][1] = 0
         IN  to_string(p[i][1]) \o <<32>> \o p[i][2]
                \o (IF p[i][1] > 1 THEN <<115>> ELSE <<>>)

\* C2: the result is "0 seconds" for 0 and otherwise the first non-zero count
\* in the order year, month, week, day, hour, minute, second, with its unit
\* and an "s" exactly when the count exceeds 1; 90 gives "1 minute", 59 gives
\* "59 seconds", two days give "2 days".
C2_RelativeDuration ==
    Returned("relative_duration") =>
        /\ ret = Ok(ClaimFormat(args.secs))
        /\ args.secs = 90 => ret.val = <<49, 32>> \o STR_minute
        /\ args.secs = 59 => ret.val = <<53, 57, 32>> \o STR_second \o <<115>>
        /\ args.secs = 172800 => ret.val = <<50, 32>> \o STR_day \o <<115>>
        /\ args.secs = 0 => ret.val = STR_0_seconds

\* a count of one year, which is also 12 months and 52 weeks, came back
\* singular
C2_Witness ==
    /\ Returned("relative_duration")
    /\ args.secs = 31536000 + 1
    /\ ret.val = <<49, 32>> \o STR_year

----------------------------------------------------------------------------
(* C3, C10: format_status_line. *)

\* the widths of the schema, as the claims give them
ClaimWidths == <<1, 20, 7, 9, 8, 17, 99>>

\* the length of the longest style marker
LongestMarker ==
    LET lens == {Len(style_prefix(st)) : st \in Styles} \cup
                {Len(style_suffix(st)) : st \in Styles}
    IN  CHOOSE n \in lens : \A m \in lens : m <= n

\* the i-th character of s lies in a style marker ESC [ ... m
InMarker(s, i) ==
    \E j \in (i - LongestMarker + 1)..i :
        /\ j >= 1
        /\ s[j] = 27
        /\ \A k \in j..(i - 1) : s[k] # 109

RECURSIVE StripRange(_, _, _)
\* the characters lo..hi of s that lie in no style marker
StripRange(s, lo, hi) ==
    IF lo > hi THEN <<>>
    ELSE IF lo = hi THEN (IF InMarker(s, lo) THEN <<>> ELSE <<s[lo]>>)
    ELSE LET mid == (lo + hi) \div 2
         IN  StripRange(s, lo, mid) \o StripRange(s, mid + 1, hi)

\* s without its style markers
StripMarkers(s) == StripRange(s, 1, Len(s))

LeftAlign(text, w) == text \o Spaces(w - Len(text))

RECURSIVE JoinFields(_, _, _)
\* lead, then the fields from the i-th on, one space between two of them
JoinFields(cells, i, lead) ==
    IF i > Len(cells) THEN <<>>
    ELSE lead \o cells[i] \o JoinFields(cells, i + 1, <<32>>)

AllPlain == \A i \in 1..7 : args.fields[i].style = "plain"

\* no field is changed by the trimmer
Untruncated ==
    \A i \in 1..7 :
        trim_long_string(args.fields[i].text, data[i].max, data[i].suffix)
            = Ok(args.fields[i].text)

PlainCells == [i \in 1..7 |-> LeftAlign(args.fields[i].text, ClaimWidths[i])]

\* C3 as stated: one leading space, then the seven fields with one space
\* between two of them, 168 characters for plain fields that need no
\* truncation.
C3_SingleLeadingSpace ==
    (Returned("format_status_line") /\ AllPlain /\ Untruncated) =>
        /\ ret = Ok(<<32>> \o JoinFields(PlainCells, 1, <<>>))
        /\ Len(ret.val) = 168

\* C3 as amended: the line is the single space the line starts as, then for
\* every field, the first included, one space and the field trimmed and
\* left-aligned to its width; it does not end with a newline; for plain
\* fields that need no truncation it is 161 + 7 + 1 = 169 characters long.
C3_StatusLine ==
    Returned("format_status_line") =>
        /\ ret.kind = "ok"
        /\ ret.val[Len(ret.val)] # 10
        /\ StripMarkers(ret.val) = <<32>> \o JoinFields(
              [i \in 1..7 |-> LeftAlign(
                  trim_long_string(args.fields[i].text, ClaimWidths[i],
                                   data[i].suffix).val,
                  ClaimWidths[i])], 1, <<32>>)
        /\ (AllPlain /\ Untruncated) =>
              /\ ret.val = <<32>> \o JoinFields(PlainCells, 1, <<32>>)
              /\ Len(ret.val) = 169

\* plain fields, none truncated, a status character and a name present
C3_Witness ==
    /\ Returned("format_status_line")
    /\ AllPlain /\ Untruncated
    /\ Len(args.fields[1].text) = 1
    /\ Len(args.fields[2].text) = 19
    /\ Len(ret.val) = 169

\* the column (1-based) of the plain line where field i starts
FieldStart(i) ==
    3 + Len(JoinFields([j \in 1..(i - 1) |-> Spaces(ClaimWidths[j])], 1, <<32>>))

\* what a field may show of its text: the text, or some first characters of
\* it followed by the suffix
Shown(i) ==
    {args.fields[i].text} \cup
    {SubSeq(args.fields[i].text, 1, k) \o data[i].suffix :
        k \in 0..Len(args.fields[i].text)}

\* C10: whatever the texts and the styles, the call does not panic, and with
\* the style markers removed the line has one constant length, every field
\* sits in its own columns, padded up or truncated down to exactly its width,
\* behind a space.
C10_ColumnAlignment ==
    Returned("format_status_line") =>
        /\ ret.kind = "ok"
        /\ LET plain == StripMarkers(ret.val) IN
           /\ Len(plain) = 169
           /\ \A i \in 1..7 :
                LET cell == SubSeq(plain, FieldStart(i), FieldStart(i) + ClaimWidths[i] - 1)
                IN  /\ plain[FieldStart(i) - 1] = 32
                    /\ \E p \in Shown(i) :
                          /\ Len(p) <= ClaimWidths[i]
                          /\ cell = LeftAlign(p, ClaimWidths[i])

\* a styled call with a text longer than its column and multi-byte texts
C10_Witness ==
    /\ Returned("format_status_line")
    /\ ret.kind = "ok"
    /\ \E i \in 1..7 : args.fields[i].style = "green"
    /\ \E i \in 1..7 :
          /\ Len(args.fields[i].text) > ClaimWidths[i]
          /\ str_len(args.fields[i].text) > Len(args.fields[i].text)
    /\ \E i \in 1..7 :
          /\ Len(args.fields[i].text) < ClaimWidths[i]
          /\ str_len(args.fields[i].text) >= ClaimWidths[i]

----------------------------------------------------------------------------
(* C4: PROC_PATH is resolved once. *)

\* the root the environment names
ClaimRoot(env) == IF env.PROC_DIR.set THEN env.PROC_DIR.val ELSE "/proc"

\* C4: the root is resolved from PROC_DIR (default "/proc") by the first
\* cmd_from_pid and by nothing else, and once resolved it never changes:
\* every later call reads <root>/<pid>/cmdline under the root resolved first,
\* whatever PROC_DIR has become.
C4_ProcPathResolvedOnce ==
    [][/\ PROC_PATH.init => PROC_PATH' = PROC_PATH
       /\ args'.op # "cmd_from_pid" => PROC_PATH' = PROC_PATH
       /\ args'.op = "cmd_from_pid" =>
            /\ PROC_PATH'.init
            /\ PROC_PATH'.path = (IF PROC_PATH.init THEN PROC_PATH.path
                                  ELSE ClaimRoot(environ))
            /\ io' = [kind |-> "read",
                      path |-> <<PROC_PATH'.path, to_string(args'.pid), "cmdline">>]
      ]_vars

\* a second call reads under the root resolved first although PROC_DIR now
\* names another one
C4_Witness ==
    /\ args.op = "cmd_from_pid"
    /\ reads = 2
    /\ PROC_PATH.init
    /\ ClaimRoot(environ) # PROC_PATH.path
    /\ io.path[1] = PROC_PATH.path

----------------------------------------------------------------------------
(* C5: should_colorize_output. *)

\* C5: the answer is false whenever NO_COLOR is set, to any value, the empty
\* one included, terminal or not; with NO_COLOR not set it is whether file
\* descriptor 1 is a terminal.
C5_ShouldColorize ==
    Returned("should_colorize_output") =>
        /\ ret.kind = "ok"
        /\ environ.NO_COLOR.set => ret.val = FALSE
        /\ ~environ.NO_COLOR.set => ret.val = tty

\* NO_COLOR is set to the empty string, on a terminal
C5_Witness ==
    /\ Returned("should_colorize_output")
    /\ environ.NO_COLOR = Set("")
    /\ tty
    /\ ret.val = FALSE

----------------------------------------------------------------------------
(* C6, C7: cmd_from_pid. *)

\* the text before the first NUL of s, s itself when it holds none
BeforeNul(s) ==
    IF \E i \in 1..Len(s) : s[i] = 0
    THEN SubSeq(s, 1, (CHOOSE i \in 1..Len(s) :
                          s[i] = 0 /\ \A k \in 1..(i - 1) : s[k] # 0) - 1)
    ELSE s

\* the record at path p can be read as text
Readable(p) == fs_read(p).errno = "" /\ from_utf8(fs_read(p).bytes).ok

\* "/bin/true"
STR_bin_true == <<47, 98, 105, 110, 47, 116, 114, 117, 101>>

\* C6: a call makes one read, of <root>/<pid>/cmdline; when the record is
\* readable (as text) the result is the text before its first NUL, the whole
\* record when it holds none, so "/bin/true\0arg1\0" gives "/bin/true"; when
\* it is not, the result is an IoError.
C6_CmdFromPid ==
    [][args'.op = "cmd_from_pid" =>
         LET p == <<PROC_PATH'.path, to_string(args'.pid), "cmdline">> IN
         /\ reads' = reads + 1
         /\ io' = [kind |-> "read", path |-> p]
         /\ IF Readable(p)
            THEN ret' = Ok(BeforeNul(from_utf8(fs_read(p).bytes).chars))
            ELSE ret'.kind = "err" /\ ret'.msg = "IoError"
         /\ fs_read(p).bytes = STR_bin_true \o <<0, 97, 114, 103, 49, 0>>
               => ret' = Ok(STR_bin_true)
      ]_vars

\* the record "/bin/true\0arg1\0" was read and gave "/bin/true"
C6_Witness ==
    /\ Returned("cmd_from_pid")
    /\ io.path = <<"/proc", <<49>>, "cmdline">>
    /\ ret = Ok(STR_bin_true)

\* the last call read a zero-length record
EmptyRecord ==
    /\ Returned("cmd_from_pid")
    /\ fs_read(io.path) = [errno |-> "", bytes |-> <<>>]

\* C7 as stated: a record read successfully but empty gives a ParseError.
C7_EmptyRecordFails ==
    EmptyRecord => ret.kind = "err" /\ ret.msg = "ParseError"

\* C7 as amended: no call fails with ParseError, since the split of any
\* record has a first field; a zero-length record read successfully gives
\* the empty string.
C7_NoParseError ==
    Returned("cmd_from_pid") =>
        /\ ret.msg # "ParseError"
        /\ EmptyRecord => ret = Ok(<<>>)

\* the zero-length record /proc/2/cmdline was read and gave ""
C7_Witness == EmptyRecord /\ ret = Ok(<<>>)

----------------------------------------------------------------------------
(* C8, C9: run_program. *)

\* C8 as stated: the call with no argument returns an InvocationError.
C8_InvocationError ==
    (Returned("run_program") /\ args.argv = <<>>) =>
        ret.kind = "err" /\ ret.msg = "InvocationError"

\* C8 as amended: the call with no argument panics on its assertion, which
\* returns nothing to the caller, and spawns no child.
C8_EmptyArgsPanic ==
    [][(args'.op = "run_program" /\ args'.argv = <<>>) =>
          /\ ret' = Panic("run_program requires at least 1 argument")
          /\ spawns' = spawns
          /\ io' = NoIo
      ]_vars

\* the call with no argument after a child was spawned
C8_Witness ==
    /\ Returned("run_program")
    /\ args.argv = <<>>
    /\ ret.kind = "panic"
    /\ spawns = 1

\* the outcome the claim gives for a child
ClaimOutcome(argv, child) ==
    CASE ~child.started -> Err("IoError", <<>>)
      [] child.started /\ child.status # 0 -> Err("ExecutionError", argv[1])
      [] child.started /\ child.status = 0 /\ ~from_utf8(child.stdout).ok ->
            Err("EncodingError", <<>>)
      [] OTHER -> Ok(from_utf8(child.stdout).chars)

\* C9: a call with arguments spawns args[0] with args[1:] once and gives one
\* outcome: IoError if the program did not start, else ExecutionError naming
\* args[0] if it exited non-zero, else EncodingError if its output is not
\* valid text, else its output; no output of a failed program is returned.
C9_RunProgram ==
    [][(args'.op = "run_program" /\ args'.argv # <<>>) =>
          /\ spawns' = spawns + 1
          /\ io'.kind = "spawn"
          /\ io'.program = args'.argv[1]
          /\ io'.argv = Tail(args'.argv)
          /\ ret' = ClaimOutcome(args'.argv, io'.child)
          /\ ret'.kind = "ok" => io'.child.started /\ io'.child.status = 0
      ]_vars

\* a program that exited non-zero with output that is not valid text
C9_Witness ==
    /\ Returned("run_program")
    /\ io.kind = "spawn"
    /\ io.child.status = 1
    /\ ~from_utf8(io.child.stdout).ok
    /\ ret = Err("ExecutionError", args.argv[1])

====
